---- MODULE Spec2Model ----
(***************************************************************************)
(* Smart College Attendance (second App of the source file): the mock      *)
(* backend kept in localStorage, the React state of the App component, the *)
(* two memoised values, and the two asynchronous handlers (setPassword,    *)
(* markAttendance) split at their await.                                   *)
(*                                                                         *)
(* Strings whose length or whitespace the code inspects (college ids,      *)
(* passwords) are sequences of one-character strings; strings that are     *)
(* only compared or tested for emptiness are TLA+ strings.  A calendar     *)
(* date "YYYY-MM-DD" is the number of days since 1970-01-01 (a Thursday).  *)
(* null / undefined is the empty sequence, a present value v is <<v>>.     *)
(***************************************************************************)
EXTENDS Integers, Sequences, FiniteSets, TLC

\* ------------------------------------------------------------------ bounds
\* Last day the clock may reach (day 0 = Thursday 1970-01-01).
MaxDay == 3
\* Last day of the statistics card's specification.
MaxStatDay == 13
\* Cap of the first App's attendance counter.
MaxAttendance == 101

\* ------------------------------------------------------------ input values
IdA == <<"a">>
IdASpace == <<"a", " ">>
IdB == <<"b">>
CollegeIds == {<<>>, IdA, IdASpace, IdB}

PwShort == <<"a", "b", "c", "d", "e">>
PwOk == <<"s", "e", "c", "r", "e", "t">>

\* Values of String(Math.floor(100000 + Math.random() * 900000)).
OtpCodes == {"100000", "999999"}

Days == 0..MaxDay
\* The date input yields a date or "" (cleared); "" is <<>>.
SemStartInputs == {<<d>> : d \in Days} \cup {<<>>}

\* The days of the statistics card's specification: two weeks from day 0.
StatDays == 0..MaxStatDay
StatStartInputs == {<<d>> : d \in StatDays} \cup {<<>>}

EmptyForm ==
  [collegeId |-> <<>>, email |-> "", phone |-> "", otp |-> "",
   password |-> <<>>, confirm |-> <<>>]

\* ---------------------------------------------------------------- messages
ErrNotFound == "Account not found. Please register first."
ErrNoPassword == "Password not set. Complete registration."
ErrInvalid == "Invalid credentials."
ErrFillAll == "Fill all fields"
ErrOtp == "Incorrect OTP"
ErrWeak == "Password must be at least 6 characters"
ErrMismatch == "Passwords do not match"
ErrSetupUser == "User not found during setup"
ErrSelfie == "Please capture a selfie first"
ErrBiometric == "Biometric/Passkey auth failed or not available"
ErrWeekend == "Today is not a working day (weekend)"
InfoOtp == "Mock OTP sent"
InfoVerified == "OTP verified. Set your password."
InfoPwSet == "Password set. Optionally register your device biometrics."
InfoMarked == "Attendance marked successfully for today."
WaRegistered == "Biometric/Passkey registered on this device."
WaSkipped == "Biometric registration skipped"

VARIABLES
  \* localStorage
  users,            \* sca_users_v1: collegeId -> record, on the ids that have one
  session,          \* sca_session_v1: <<>> or <<collegeId>>
  att,              \* sca_att_<collegeId>: sequence of dates ([] when absent)
  \* React state of App
  view, step, form, info, err, otpSent, otpCode, user, marking, shotBlob,
  waStatus, semStart,
  \* useMemo caches
  workingDays, attendanceDates,
  \* environment
  today,            \* the UTC calendar date of the clock
  tzWest,           \* the browser's time zone is west of UTC
  \* the handlers suspended at their await, and their locals
  enrolling,        \* setPassword at line 490: <<u>> or <<>>
  asserting,        \* markAttendance at line 506: <<collegeId>> or <<>>
  res,              \* setPassword's res.ok: <<>> or <<BOOLEAN>>
  wa,               \* markAttendance's wa.ok: <<>> or <<BOOLEAN>>
  \* history
  credentialed,     \* ids for which navigator.credentials.create returned a credential
  otpFor,           \* registration in progress: the College ID sendOTP read
  verifiedFor,      \* registration in progress: the College ID verifyOTP read
  registered,       \* ids that went through sendOTP, verifyOTP and setPassword
  \* React state of the first App of the file (lines 4-69)
  page,             \* "register", "login" or "dashboard"
  students,         \* students (and localStorage "students"): collegeId -> record
  current,          \* the logged-in record: <<>> or <<record>>
  studentForm       \* its form: collegeId, email, phone, password

vars ==
  <<users, session, att, view, step, form, info, err, otpSent, otpCode, user,
    marking, shotBlob, waStatus, semStart, workingDays, attendanceDates, today,
    tzWest, enrolling, asserting, res, wa, credentialed, otpFor, verifiedFor,
    registered, page, students, current, studentForm>>

\* The second App's variables, and the first App's.
mainVars ==
  <<users, session, att, view, step, form, info, err, otpSent, otpCode, user,
    marking, shotBlob, waStatus, semStart, workingDays, attendanceDates, today,
    tzWest, enrolling, asserting, res, wa, credentialed, otpFor, verifiedFor,
    registered>>
simpleVars == <<page, students, current, studentForm>>

storageVars == <<users, session, att>>
envVars == <<today, tzWest>>
flowVars == <<otpFor, verifiedFor, registered>>

\* ------------------------------------------------------------ pure helpers
RECURSIVE trimStart(_)
trimStart(s) ==
  IF s # <<>> /\ Head(s) = " " THEN trimStart(Tail(s)) ELSE s

RECURSIVE trimEnd(_)
trimEnd(s) ==
  IF s # <<>> /\ s[Len(s)] = " " THEN trimEnd(SubSeq(s, 1, Len(s) - 1)) ELSE s

trim(s) == trimEnd(trimStart(s))

\* Date.prototype.getDay of the instant 00:00 UTC of date d, read in the
\* browser's zone: west of UTC that instant is still the previous local day.
getDay(d, west) == IF west THEN (d + 3) % 7 ELSE (d + 4) % 7

isWeekday(d, west) ==
  LET day == getDay(d, west) IN day # 0 /\ day # 6

\* Mutant: the length of the period less two days for every Saturday in it.
workingDaysCountByWeeks(start, end, west) ==
  IF start = <<>> \/ end < start[1] THEN 0
  ELSE (end - start[1] + 1)
         - 2 * Cardinality({d \in start[1]..end : getDay(d, west) = 6})

\* Lines 265-273: one isWeekday test for each day from start to end.
\* An invalid start date (new Date("")) makes d <= end false at once.
workingDaysCount(start, end, west) ==
  IF start = <<>> THEN 0
  ELSE Cardinality({d \in start[1]..end : isWeekday(d, west)})

includes(dates, day) == \E i \in 1..Len(dates) : dates[i] = day

getUser(us, id) == IF id \in DOMAIN us THEN <<us[id]>> ELSE <<>>

\* Mutant: saveUsers stores the one record instead of the loaded object.
upsertUserAlone(us, u) == [id \in {u.collegeId} |-> u]

upsertUser(us, u) ==
  [id \in DOMAIN us \cup {u.collegeId} |-> IF id = u.collegeId THEN u ELSE us[id]]

loadAttendance(a, id) == a[id]

saveAttendance(a, id, dates) == [a EXCEPT ![id] = dates]

\* attendanceDates = useMemo(() => user ? loadAttendance(user.collegeId) : [], [user])
memoAttendance(u, a) == IF u = <<>> THEN <<>> ELSE loadAttendance(a, u[1].collegeId)

presentDays == Len(attendanceDates)

absentDays == IF workingDays - presentDays > 0 THEN workingDays - presentDays ELSE 0

\* Mutant: the digits after the second decimal are cut off, not rounded.
toFixed2Truncating(num, den) ==
  LET a == IF num < 0 THEN -num ELSE num
      n == (100 * a) \div den
  IN [neg |-> num < 0, int |-> n \div 100, frac |-> n % 100]

\* Number.prototype.toFixed(2) of num / den (den > 0).  The result is a
\* string: "-" when the number is negative, the integer digits, ".", and two
\* fraction digits, of the multiple of 0.01 nearest to the number (the larger
\* one in a tie); it is kept as its sign, integer part and fraction digits.
\* For the day counts of one semester the double the code computes rounds
\* as the exact quotient does.
toFixed2(num, den) ==
  LET a == IF num < 0 THEN -num ELSE num
      n == (200 * a + den) \div (2 * den)
  IN [neg |-> num < 0, int |-> n \div 100, frac |-> n % 100]

\* Mutant: the factor 100 of line 429 is missing.
percentageFraction ==
  IF workingDays = 0 THEN 0
  ELSE toFixed2(presentDays - absentDays, workingDays)

\* Lines 426-430: the number 0, or the string toFixed(2) returns.
percentage ==
  IF workingDays = 0 THEN 0
  ELSE toFixed2(100 * (presentDays - absentDays), workingDays)

\* -------------------------------------------------------------------- Init
EmptyStudentForm ==
  [collegeId |-> <<>>, email |-> "", phone |-> "", password |-> <<>>]

\* The first App after mount on a first visit (lines 5-15).
SimpleInit ==
  /\ page = "register"
  /\ students = <<>>
  /\ current = <<>>
  /\ studentForm = EmptyStudentForm

\* A first visit: empty localStorage, the useState initial values, and the
\* first render's memo values.  defaultSemesterStart() is the first day of
\* the current month: some date not after today.
Init ==
  /\ users = <<>>
  /\ session = <<>>
  /\ att = [id \in CollegeIds |-> <<>>]
  /\ view = "auth"
  /\ step = "login"
  /\ form = EmptyForm
  /\ info = ""
  /\ err = ""
  /\ otpSent = FALSE
  /\ otpCode = ""
  /\ user = <<>>
  /\ marking = FALSE
  /\ shotBlob = FALSE
  /\ waStatus = ""
  /\ today = 0
  /\ tzWest \in BOOLEAN
  /\ semStart \in {<<d>> : d \in 0..today}
  /\ workingDays = workingDaysCount(semStart, today, tzWest)
  /\ attendanceDates = <<>>
  /\ enrolling = <<>>
  /\ asserting = <<>>
  /\ res = <<>>
  /\ wa = <<>>
  /\ credentialed = {}
  /\ otpFor = <<>>
  /\ verifiedFor = <<>>
  /\ registered = {}
  /\ SimpleInit

\* ------------------------------------------------------------ form editing
\* The inputs on screen: College ID and Password in the Login card, the
\* others in the First-Time Setup card of the current step.
fieldShown(k) ==
  /\ view = "auth"
  /\ \/ k \in {"collegeId", "password"}
     \/ k \in {"email", "phone"} /\ step = "register"
     \/ k = "otp" /\ step = "verify"
     \/ k = "confirm" /\ step = "setpass"

updateField(k, v) ==
  /\ fieldShown(k)
  /\ form[k] # v
  /\ form' = [form EXCEPT ![k] = v]
  /\ UNCHANGED <<storageVars, envVars, simpleVars, view, step, info, err, otpSent, otpCode,
                 user, marking, shotBlob, waStatus, semStart, workingDays,
                 attendanceDates, enrolling, asserting, res, wa, credentialed, flowVars>>

\* ------------------------------------------------------------------- login
\* Mutant: the password comparison of line 441 is missing.
loginErrorAnyPassword(u, password) ==
  IF u = <<>> THEN ErrNotFound
  ELSE IF u[1].password = <<>> \/ u[1].password = << <<>> >> THEN ErrNoPassword
  ELSE ""

loginError(u, password) ==
  IF u = <<>> THEN ErrNotFound
  ELSE IF u[1].password = <<>> \/ u[1].password = << <<>> >> THEN ErrNoPassword
  ELSE IF u[1].password # <<password>> THEN ErrInvalid
  ELSE ""

doLogin ==
  /\ view = "auth"
  /\ LET u == getUser(users, trim(form.collegeId))
         e == loginError(u, form.password)
     IN IF e # ""
        THEN /\ err' = e
             /\ UNCHANGED <<user, view, info, session, attendanceDates>>
        ELSE /\ user' = u
             /\ view' = "app"
             /\ info' = ""
             /\ err' = ""
             /\ session' = <<u[1].collegeId>>
             /\ attendanceDates' = memoAttendance(u, att)
  /\ UNCHANGED <<users, att, envVars, simpleVars, step, form, otpSent, otpCode, marking,
                 shotBlob, waStatus, semStart, workingDays, enrolling,
                 asserting, res, wa, credentialed, flowVars>>

\* ------------------------------------------------------------ registration
startRegister ==
  /\ view = "auth"
  /\ step' = "register"
  /\ err' = ""
  /\ info' = ""
  /\ otpFor' = <<>>
  /\ verifiedFor' = <<>>
  /\ UNCHANGED <<storageVars, envVars, simpleVars, view, form, otpSent, otpCode, user,
                 marking, shotBlob, waStatus, semStart, workingDays,
                 attendanceDates, enrolling, asserting, res, wa, credentialed,
                 registered>>

\* Mutant: the emptiness test of line 458 is missing.
sendOTPNoValidation(code) ==
  /\ view = "auth"
  /\ step = "register"
  /\ err' = ""
  /\ otpFor' = <<form.collegeId>>
  /\ otpCode' = code
  /\ otpSent' = TRUE
  /\ step' = "verify"
  /\ info' = InfoOtp
  /\ UNCHANGED <<storageVars, envVars, simpleVars, view, form, user, marking, shotBlob,
                 waStatus, semStart, workingDays, attendanceDates, enrolling,
                 asserting, res, wa, credentialed, verifiedFor, registered>>

\* Lines 455-465; the Send OTP button is in the register step's card.
sendOTP(code) ==
  /\ view = "auth"
  /\ step = "register"
  /\ IF form.collegeId = <<>> \/ form.email = "" \/ form.phone = ""
     THEN /\ err' = ErrFillAll
          /\ UNCHANGED <<otpCode, otpSent, step, info, otpFor>>
     ELSE /\ err' = ""
          /\ otpFor' = <<form.collegeId>>
          /\ otpCode' = code
          /\ otpSent' = TRUE
          /\ step' = "verify"
          /\ info' = InfoOtp
  /\ UNCHANGED <<storageVars, envVars, simpleVars, view, form, user, marking, shotBlob,
                 waStatus, semStart, workingDays, attendanceDates, enrolling,
                 asserting, res, wa, credentialed, verifiedFor, registered>>

\* { collegeId: form.collegeId }: password and webauthn are undefined.
seedUser(id) ==
  [collegeId |-> id, email |-> "", phone |-> "", password |-> <<>>,
   webauthn |-> FALSE]

\* Mutant: the comparison of line 469 is missing.
otpAlwaysMatches == TRUE

otpMatches == form.otp = otpCode

\* Mutant: the lookup of line 471 is missing, the record is always seeded.
verifyOTPSeeding ==
  /\ view = "auth"
  /\ step = "verify"
  /\ IF ~otpMatches
     THEN /\ err' = ErrOtp
          /\ UNCHANGED <<users, step, info, verifiedFor>>
     ELSE LET u == seedUser(form.collegeId)
          IN /\ users' = upsertUser(users, [u EXCEPT !.email = form.email,
                                                      !.phone = form.phone])
             /\ step' = "setpass"
             /\ info' = InfoVerified
             /\ err' = ""
             /\ verifiedFor' = <<form.collegeId>>
  /\ UNCHANGED <<session, att, envVars, simpleVars, view, form, otpSent, otpCode, user,
                 marking, shotBlob, waStatus, semStart, workingDays,
                 attendanceDates, enrolling, asserting, res, wa, credentialed,
                 otpFor, registered>>

\* Lines 467-477.
verifyOTP ==
  /\ view = "auth"
  /\ step = "verify"
  /\ IF ~otpMatches
     THEN /\ err' = ErrOtp
          /\ UNCHANGED <<users, step, info, verifiedFor>>
     ELSE LET found == getUser(users, form.collegeId)
              u == IF found # <<>> THEN found[1] ELSE seedUser(form.collegeId)
          IN /\ users' = upsertUser(users, [u EXCEPT !.email = form.email,
                                                      !.phone = form.phone])
             /\ step' = "setpass"
             /\ info' = InfoVerified
             /\ err' = ""
             /\ verifiedFor' = <<form.collegeId>>
  /\ UNCHANGED <<session, att, envVars, simpleVars, view, form, otpSent, otpCode, user,
                 marking, shotBlob, waStatus, semStart, workingDays,
                 attendanceDates, enrolling, asserting, res, wa, credentialed,
                 otpFor, registered>>

\* ------------------------------------------------------------- setPassword
\* Mutant: the length test of line 481 is missing.
passwordErrorNoLength(password, confirm) ==
  IF password = <<>> THEN ErrWeak
  ELSE IF password # confirm THEN ErrMismatch
  ELSE ""

passwordError(password, confirm) ==
  IF password = <<>> \/ Len(password) < 6 THEN ErrWeak
  ELSE IF password # confirm THEN ErrMismatch
  ELSE ""

\* Lines 493-495, after createWebAuthnCredential has answered.
finishSetup(u) ==
  /\ user' = <<u>>
  /\ view' = "app"
  /\ session' = <<u.collegeId>>
  /\ attendanceDates' = memoAttendance(<<u>>, att)

\* Lines 479-490.  createWebAuthnCredential either answers at once with
\* ok: false (no WebAuthn in this browser, or the browser refuses a second
\* request while one is pending) or suspends in navigator.credentials.create.
setPassword(supported) ==
  /\ view = "auth"
  /\ step = "setpass"
  /\ LET e == passwordError(form.password, form.confirm)
         found == getUser(users, form.collegeId)
     IN IF e # "" \/ found = <<>>
        THEN /\ err' = IF e # "" THEN e ELSE ErrSetupUser
             /\ UNCHANGED <<users, info, waStatus, user, view, session,
                            attendanceDates, enrolling, res, registered>>
        ELSE LET u == [found[1] EXCEPT !.password = <<form.password>>]
             IN /\ err' = ""
                /\ users' = upsertUser(users, u)
                /\ info' = InfoPwSet
                /\ registered' =
                     IF otpFor = <<u.collegeId>> /\ verifiedFor = <<u.collegeId>>
                     THEN registered \cup {u.collegeId} ELSE registered
                /\ IF supported /\ enrolling = <<>>
                   THEN /\ waStatus' = "Registering biometrics..."
                        /\ enrolling' = <<u>>
                        /\ UNCHANGED <<user, view, session, attendanceDates, res>>
                   ELSE /\ res' = <<FALSE>>
                        /\ waStatus' = WaSkipped
                        /\ finishSetup(u)
                        /\ UNCHANGED enrolling
  /\ UNCHANGED <<att, envVars, simpleVars, step, form, otpSent, otpCode, marking, shotBlob,
                 semStart, workingDays, asserting, wa, credentialed, otpFor,
                 verifiedFor>>

\* Lines 302-308: the credential came back, so the stored record is flagged.
markEnrolled(us, id) ==
  LET found == getUser(us, id)
  IN IF found = <<>> THEN us
     ELSE upsertUser(us, [found[1] EXCEPT !.webauthn = TRUE])

\* Mutant: a failed enrollment ends setPassword before lines 493-495.
enrollReturnFatal(cred) ==
  /\ enrolling # <<>>
  /\ LET u == enrolling[1]
     IN IF cred /\ getUser(users, u.collegeId) # <<>>
        THEN /\ users' = markEnrolled(users, u.collegeId)
             /\ credentialed' = credentialed \cup {u.collegeId}
             /\ res' = <<TRUE>>
             /\ waStatus' = WaRegistered
             /\ finishSetup(u)
        ELSE /\ res' = <<FALSE>>
             /\ waStatus' = WaSkipped
             /\ UNCHANGED <<users, credentialed, user, view, session,
                            attendanceDates>>
  /\ enrolling' = <<>>
  /\ UNCHANGED <<att, envVars, simpleVars, step, form, info, err, otpSent, otpCode, marking,
                 shotBlob, semStart, workingDays, asserting, wa, flowVars>>

\* navigator.credentials.create settles (cred: a credential was returned;
\* otherwise null or an exception) and setPassword resumes at line 491.
enrollReturn(cred) ==
  /\ enrolling # <<>>
  /\ LET u == enrolling[1]
     IN /\ IF cred /\ getUser(users, u.collegeId) # <<>>
           THEN /\ users' = markEnrolled(users, u.collegeId)
                /\ credentialed' = credentialed \cup {u.collegeId}
                /\ res' = <<TRUE>>
                /\ waStatus' = WaRegistered
           ELSE /\ res' = <<FALSE>>
                /\ waStatus' = WaSkipped
                /\ UNCHANGED <<users, credentialed>>
        /\ finishSetup(u)
  /\ enrolling' = <<>>
  /\ UNCHANGED <<att, envVars, simpleVars, step, form, info, err, otpSent, otpCode, marking,
                 shotBlob, semStart, workingDays, asserting, wa, flowVars>>

\* -------------------------------------------------------------- attendance
\* CameraCapture's onCapture: a blob is stored.
capture ==
  /\ view = "app"
  /\ shotBlob' = TRUE
  /\ UNCHANGED <<storageVars, envVars, simpleVars, view, step, form, info, err, otpSent,
                 otpCode, user, marking, waStatus, semStart, workingDays,
                 attendanceDates, enrolling, asserting, res, wa, credentialed, flowVars>>

\* Mutant: the selfie gate of line 504 is missing.
markAttendanceNoSelfie ==
  /\ view = "app"
  /\ user # <<>>
  /\ ~marking
  /\ info' = ""
  /\ err' = ""
  /\ marking' = TRUE
  /\ asserting' = <<user[1].collegeId>>
  /\ UNCHANGED <<storageVars, envVars, simpleVars, view, step, form, otpSent, otpCode, user,
                 shotBlob, waStatus, semStart, workingDays, attendanceDates,
                 enrolling, res, wa, credentialed, flowVars>>

\* Mutant: the button is not disabled while marking (line 659).
markAttendanceWhileMarking ==
  /\ view = "app"
  /\ user # <<>>
  /\ info' = ""
  /\ IF ~shotBlob
     THEN /\ err' = ErrSelfie
          /\ UNCHANGED <<marking, asserting>>
     ELSE /\ err' = ""
          /\ marking' = TRUE
          /\ asserting' = <<user[1].collegeId>>
  /\ UNCHANGED <<storageVars, envVars, simpleVars, view, step, form, otpSent, otpCode, user,
                 shotBlob, waStatus, semStart, workingDays, attendanceDates,
                 enrolling, res, wa, credentialed, flowVars>>

\* Lines 498-506: up to the await of authenticateWithWebAuthn.
markAttendance ==
  /\ view = "app"
  /\ user # <<>>
  /\ ~marking
  /\ info' = ""
  /\ IF ~shotBlob
     THEN /\ err' = ErrSelfie
          /\ UNCHANGED <<marking, asserting>>
     ELSE /\ err' = ""
          /\ marking' = TRUE
          /\ asserting' = <<user[1].collegeId>>
  /\ UNCHANGED <<storageVars, envVars, simpleVars, view, step, form, otpSent, otpCode, user,
                 shotBlob, waStatus, semStart, workingDays, attendanceDates,
                 enrolling, res, wa, credentialed, flowVars>>

\* Mutant: the includes test of line 512 is missing.
markDayAlways(a, id, day) ==
  saveAttendance(a, id, Append(loadAttendance(a, id), day))

\* Lines 509-515.
markDay(a, id, day) ==
  LET dates == loadAttendance(a, id)
  IN IF includes(dates, day) THEN a
     ELSE saveAttendance(a, id, Append(dates, day))

\* authenticateWithWebAuthn settles and markAttendance resumes at line 507.
assertReturn(ok) ==
  /\ asserting # <<>>
  /\ wa' = <<ok>>
  /\ LET id == asserting[1]
         day == today
     IN IF ~ok
        THEN /\ err' = ErrBiometric
             /\ UNCHANGED <<att, info>>
        ELSE IF ~isWeekday(day, tzWest)
        THEN /\ err' = ErrWeekend
             /\ UNCHANGED <<att, info>>
        ELSE /\ att' = markDay(att, id, day)
             /\ info' = InfoMarked
             /\ UNCHANGED err
  /\ marking' = FALSE
  /\ asserting' = <<>>
  /\ UNCHANGED <<users, session, envVars, simpleVars, view, step, form, otpSent, otpCode,
                 user, shotBlob, waStatus, semStart, workingDays,
                 attendanceDates, enrolling, res, credentialed, flowVars>>

setSemStart(v) ==
  /\ view = "app"
  /\ v # semStart
  /\ semStart' = v
  /\ workingDays' = workingDaysCount(v, today, tzWest)
  /\ UNCHANGED <<storageVars, envVars, simpleVars, view, step, form, info, err, otpSent,
                 otpCode, user, marking, shotBlob, waStatus, attendanceDates,
                 enrolling, asserting, res, wa, credentialed, flowVars>>

\* ------------------------------------------------------------------ logout
\* Mutant: clearSession() of line 525 is missing.
logoutKeepsSession ==
  /\ user # <<>>
  /\ user' = <<>>
  /\ view' = "auth"
  /\ step' = "login"
  /\ form' = EmptyForm
  /\ info' = ""
  /\ err' = ""
  /\ attendanceDates' = <<>>
  /\ otpFor' = <<>>
  /\ verifiedFor' = <<>>
  /\ UNCHANGED <<users, session, att, envVars, simpleVars, otpSent, otpCode, marking,
                 shotBlob, waStatus, semStart, workingDays, enrolling,
                 asserting, res, wa, credentialed, registered>>

\* Lines 524-532; the Logout button is rendered only while user is set.
logout ==
  /\ user # <<>>
  /\ session' = <<>>
  /\ user' = <<>>
  /\ view' = "auth"
  /\ step' = "login"
  /\ form' = EmptyForm
  /\ info' = ""
  /\ err' = ""
  /\ attendanceDates' = <<>>
  /\ otpFor' = <<>>
  /\ verifiedFor' = <<>>
  /\ UNCHANGED <<users, att, envVars, simpleVars, otpSent, otpCode, marking, shotBlob,
                 waStatus, semStart, workingDays, enrolling, asserting, res, wa,
                 credentialed, registered>>

\* ------------------------------------------------------------- environment
\* Midnight UTC passes.
Tick ==
  /\ today < MaxDay
  /\ today' = today + 1
  /\ UNCHANGED <<storageVars, tzWest, simpleVars, view, step, form, info, err, otpSent,
                 otpCode, user, marking, shotBlob, waStatus, semStart,
                 workingDays, attendanceDates, enrolling, asserting, res, wa,
                 credentialed, flowVars>>

\* getSession() is truthy: a stored, non-empty string.
sessionToRestore(sess) == sess # <<>> /\ sess[1] # <<>>

\* The page is loaded again: the component mounts with its initial state,
\* suspended handlers are gone, and the effect of lines 408-419 runs.
Reload ==
  /\ step' = "login"
  /\ form' = EmptyForm
  /\ info' = ""
  /\ err' = ""
  /\ otpSent' = FALSE
  /\ otpCode' = ""
  /\ marking' = FALSE
  /\ shotBlob' = FALSE
  /\ waStatus' = ""
  /\ semStart' \in {<<d>> : d \in 0..today}
  /\ workingDays' = workingDaysCount(semStart', today, tzWest)
  /\ enrolling' = <<>>
  /\ asserting' = <<>>
  /\ res' = <<>>
  /\ wa' = <<>>
  /\ LET u == IF sessionToRestore(session) THEN getUser(users, session[1]) ELSE <<>>
     IN /\ user' = u
        /\ view' = IF u # <<>> THEN "app" ELSE "auth"
        /\ session' = IF sessionToRestore(session) /\ u = <<>> THEN <<>> ELSE session
        /\ attendanceDates' = memoAttendance(u, att)
  /\ otpFor' = <<>>
  /\ verifiedFor' = <<>>
  /\ UNCHANGED <<users, att, envVars, simpleVars, credentialed, registered>>

\* ---------------------------------------------------------- the first App
\* const workingDays = 100 (line 16).
simpleWorkingDays == 100

\* The inputs of the current page; they are never reset.
updateStudentForm(k, v) ==
  /\ \/ page = "register"
     \/ page = "login" /\ k \in {"collegeId", "password"}
  /\ studentForm[k] # v
  /\ studentForm' = [studentForm EXCEPT ![k] = v]
  /\ UNCHANGED <<mainVars, page, students, current>>

\* Lines 23-40.
register ==
  /\ page = "register"
  /\ LET f == studentForm
     IN IF f.collegeId = <<>> \/ f.email = "" \/ f.phone = "" \/ f.password = <<>>
        THEN UNCHANGED <<page, students>>
        ELSE IF f.collegeId \in DOMAIN students
        THEN page' = "login" /\ UNCHANGED students
        ELSE /\ students' =
                  [id \in DOMAIN students \cup {f.collegeId} |->
                     IF id = f.collegeId
                     THEN [collegeId |-> f.collegeId, email |-> f.email,
                           phone |-> f.phone, password |-> f.password,
                           attendance |-> 0]
                     ELSE students[id]]
             /\ page' = "login"
  /\ UNCHANGED <<mainVars, current, studentForm>>

\* Lines 42-54.
login ==
  /\ page = "login"
  /\ LET id == studentForm.collegeId
     IN IF id \notin DOMAIN students \/ students[id].password # studentForm.password
        THEN UNCHANGED <<current, page>>
        ELSE current' = <<students[id]>> /\ page' = "dashboard"
  /\ UNCHANGED <<mainVars, students, studentForm>>

\* Lines 56-61 (markAttendance of the first App): the record that students
\* and current share is incremented.
simpleMarkAttendance ==
  /\ page = "dashboard" /\ current # <<>>
  /\ LET id == current[1].collegeId
     IN /\ students[id].attendance < MaxAttendance
        /\ students' = [students EXCEPT ![id].attendance = @ + 1]
        /\ current' = <<students'[id]>>
  /\ UNCHANGED <<mainVars, page, studentForm>>

\* Lines 63-69.
totalAbsent == simpleWorkingDays - current[1].attendance

attendancePercent == toFixed2(100 * current[1].attendance, simpleWorkingDays)

\* The links of lines 102 and 130, and the Logout button (line 147).
setPage(p) ==
  /\ \/ page = "register" /\ p = "login"
     \/ page = "login" /\ p = "register"
     \/ page = "dashboard" /\ p = "login"
  /\ page' = p
  /\ UNCHANGED <<mainVars, students, current, studentForm>>

\* The page is loaded again: students is read back from localStorage.
simpleReload ==
  /\ page' = "register"
  /\ current' = <<>>
  /\ studentForm' = EmptyStudentForm
  /\ UNCHANGED <<mainVars, students>>

\* ---------------------------------------------------------- specifications
\* What the user types.  Every field starts empty (EmptyForm); the values
\* below are what a field can be changed to.
accountInputs(k) ==
  CASE k = "collegeId" -> {IdA, IdASpace}
    [] k = "email" -> {"s@college.edu"}
    [] k = "phone" -> {"5550100"}
    [] k = "otp" -> OtpCodes
    [] k = "password" -> {PwShort, PwOk}
    [] OTHER -> {PwOk}

\* Accounts and sessions: registration, login, logout, reload.  The
\* attendance handlers write nothing these handlers read, and are left to
\* SpecAttendance.
Next ==
  \/ \E k \in DOMAIN EmptyForm : \E v \in accountInputs(k) : updateField(k, v)
  \/ doLogin
  \/ startRegister
  \/ \E code \in OtpCodes : sendOTP(code)
  \/ verifyOTP
  \/ \E supported \in BOOLEAN : setPassword(supported)
  \/ \E cred \in BOOLEAN : enrollReturn(cred)
  \/ logout
  \/ Reload

Spec == Init /\ [][Next]_vars

\* The same handlers when the user also empties the College ID input (the
\* one input serves the Login card and every step of First-Time Setup).
emptyIdInputs(k) ==
  CASE k = "collegeId" -> {<<>>, IdA}
    [] k = "email" -> {"s@college.edu"}
    [] k = "phone" -> {"5550100"}
    [] k = "otp" -> OtpCodes
    [] OTHER -> {PwOk}

NextEmptyId ==
  \/ \E k \in DOMAIN EmptyForm : \E v \in emptyIdInputs(k) : updateField(k, v)
  \/ doLogin
  \/ startRegister
  \/ \E code \in OtpCodes : sendOTP(code)
  \/ verifyOTP
  \/ \E supported \in BOOLEAN : setPassword(supported)
  \/ \E cred \in BOOLEAN : enrollReturn(cred)
  \/ logout
  \/ Reload

SpecEmptyId == Init /\ [][NextEmptyId]_vars

\* Attendance, for two accounts that have registered before (a state the
\* registration handlers reach), on a page freshly loaded on some day.
registeredUser(id) ==
  [collegeId |-> id, email |-> "s@college.edu", phone |-> "5550100",
   password |-> <<PwOk>>, webauthn |-> FALSE]

InitAttendance ==
  /\ users = upsertUser(upsertUser(<<>>, registeredUser(IdA)), registeredUser(IdB))
  /\ session = <<>>
  /\ att = [id \in CollegeIds |-> <<>>]
  /\ view = "auth"
  /\ step = "login"
  /\ form = EmptyForm
  /\ info = ""
  /\ err = ""
  /\ otpSent = FALSE
  /\ otpCode = ""
  /\ user = <<>>
  /\ marking = FALSE
  /\ shotBlob = FALSE
  /\ waStatus = ""
  /\ today \in Days
  /\ tzWest \in BOOLEAN
  /\ semStart \in {<<d>> : d \in 0..today}
  /\ workingDays = workingDaysCount(semStart, today, tzWest)
  /\ attendanceDates = <<>>
  /\ enrolling = <<>>
  /\ asserting = <<>>
  /\ res = <<>>
  /\ wa = <<>>
  /\ credentialed = {}
  /\ otpFor = <<>>
  /\ verifiedFor = <<>>
  /\ registered = {IdA, IdB}
  /\ SimpleInit

attendanceInputs(k) == IF k = "collegeId" THEN {IdA, IdB} ELSE {PwOk}

NextAttendance ==
  \/ \E k \in {"collegeId", "password"} :
       \E v \in attendanceInputs(k) : updateField(k, v)
  \/ doLogin
  \/ capture
  \/ markAttendance
  \/ \E ok \in BOOLEAN : assertReturn(ok)
  \/ \E v \in SemStartInputs : setSemStart(v)
  \/ logout
  \/ Tick
  \/ Reload

SpecAttendance == InitAttendance /\ [][NextAttendance]_vars

\* The same, with the biometric capability answering in the end: a pending
\* navigator.credentials.get settles or times out (timeout: 60000).
FairAttendance ==
  SpecAttendance /\ WF_vars(\E ok \in BOOLEAN : assertReturn(ok))

\* First-Time Setup walked again for College IDs that have an account: "a"
\* (with a passkey enrolled) and "b" registered before, and the page is
\* freshly loaded; the user types new contact details.
reverifyInputs(k) ==
  CASE k = "collegeId" -> {IdA, IdB}
    [] k = "email" -> {"t@college.edu"}
    [] k = "phone" -> {"5550199"}
    [] OTHER -> OtpCodes

InitReverify ==
  /\ users = upsertUser(upsertUser(<<>>, [registeredUser(IdA) EXCEPT !.webauthn = TRUE]),
                        registeredUser(IdB))
  /\ session = <<>>
  /\ att = [id \in CollegeIds |-> <<>>]
  /\ view = "auth"
  /\ step = "login"
  /\ form = EmptyForm
  /\ info = ""
  /\ err = ""
  /\ otpSent = FALSE
  /\ otpCode = ""
  /\ user = <<>>
  /\ marking = FALSE
  /\ shotBlob = FALSE
  /\ waStatus = ""
  /\ today \in Days
  /\ tzWest \in BOOLEAN
  /\ semStart \in {<<d>> : d \in 0..today}
  /\ workingDays = workingDaysCount(semStart, today, tzWest)
  /\ attendanceDates = <<>>
  /\ enrolling = <<>>
  /\ asserting = <<>>
  /\ res = <<>>
  /\ wa = <<>>
  /\ credentialed = {IdA}
  /\ otpFor = <<>>
  /\ verifiedFor = <<>>
  /\ registered = {IdA, IdB}
  /\ SimpleInit

NextReverify ==
  \/ \E k \in {"collegeId", "email", "phone", "otp"} :
       \E v \in reverifyInputs(k) : updateField(k, v)
  \/ startRegister
  \/ \E code \in OtpCodes : sendOTP(code)
  \/ verifyOTP

SpecReverify == InitReverify /\ [][NextReverify]_vars

\* The statistics card.  The page has been loaded with the session of account
\* "a" stored, on any day of the first two weeks, after "a" marked attendance
\* on each working day (as isWeekday sees it) of some stretch of days; the
\* user then picks semester start dates (also future ones) or reloads.
RECURSIVE markedDays(_, _, _)
markedDays(lo, hi, west) ==
  IF lo > hi THEN <<>>
  ELSE (IF isWeekday(lo, west) THEN <<lo>> ELSE <<>>) \o markedDays(lo + 1, hi, west)

InitStats ==
  /\ users = upsertUser(upsertUser(<<>>, registeredUser(IdA)), registeredUser(IdB))
  /\ session = <<IdA>>
  /\ today \in StatDays
  /\ tzWest \in BOOLEAN
  /\ \E lo \in 0..today : \E hi \in (lo - 1)..today :
       att = [id \in CollegeIds |->
                IF id = IdA THEN markedDays(lo, hi, tzWest) ELSE <<>>]
  /\ view = "app"
  /\ step = "login"
  /\ form = EmptyForm
  /\ info = ""
  /\ err = ""
  /\ otpSent = FALSE
  /\ otpCode = ""
  /\ user = getUser(users, IdA)
  /\ marking = FALSE
  /\ shotBlob = FALSE
  /\ waStatus = ""
  /\ semStart \in {<<d>> : d \in 0..today}
  /\ workingDays = workingDaysCount(semStart, today, tzWest)
  /\ attendanceDates = memoAttendance(user, att)
  /\ enrolling = <<>>
  /\ asserting = <<>>
  /\ res = <<>>
  /\ wa = <<>>
  /\ credentialed = {}
  /\ otpFor = <<>>
  /\ verifiedFor = <<>>
  /\ registered = {IdA, IdB}
  /\ SimpleInit

NextStats ==
  \/ \E v \in StatStartInputs : setSemStart(v)
  \/ Reload

SpecStats == InitStats /\ [][NextStats]_vars

\* The first App: one student registers, logs in and marks attendance.
studentInputs(k) ==
  CASE k = "collegeId" -> {IdA}
    [] k = "email" -> {"s@college.edu"}
    [] k = "phone" -> {"5550100"}
    [] OTHER -> {PwShort, PwOk}

NextSimple ==
  \/ \E k \in DOMAIN EmptyStudentForm :
       \E v \in studentInputs(k) : updateStudentForm(k, v)
  \/ register
  \/ login
  \/ simpleMarkAttendance
  \/ \E p \in {"register", "login"} : setPage(p)
  \/ simpleReload

SpecSimple == Init /\ [][NextSimple]_vars

\* ================================================================== claims

\* C1: once sendOTP, verifyOTP (with the issued code) and setPassword have
\* succeeded for a College ID, doLogin with that College ID and the stored
\* password logs in as that College ID, and doLogin with that College ID and
\* another password fails with "Invalid credentials." and sets no session.
C1_LoginAfterRegistration ==
  [][doLogin /\ form.collegeId \in registered
       => LET id == form.collegeId
          IN IF users[id].password = <<form.password>>
             THEN view' = "app" /\ session' = <<id>> /\ user' = <<users[id]>>
             ELSE err' = ErrInvalid /\ session' = session /\ view' = view]_vars

\* C2: verifyOTP succeeds, and writes the account of the College ID in the
\* form, only with the code that sendOTP issued for that same College ID;
\* otherwise it fails with "Incorrect OTP" and leaves every account alone.
C2_VerifyOnlyIssuedCode ==
  [][verifyOTP
       => IF form.otp = otpCode /\ otpFor = <<form.collegeId>>
          THEN step' = "setpass" /\ form.collegeId \in DOMAIN users'
          ELSE err' = ErrOtp /\ users' = users /\ step' = step]_vars

\* C3: doLogin looks the trimmed College ID up and fails with not-found, else
\* no-password-set, else invalid-credentials, each time leaving session, user
\* and view alone; only when all three checks pass does it set the session,
\* to exactly that id.
C3_LoginChecks ==
  [][doLogin
       => LET id == trim(form.collegeId)
              untouched == session' = session /\ user' = user /\ view' = view
          IN IF id \notin DOMAIN users THEN err' = ErrNotFound /\ untouched
             ELSE IF users[id].password = <<>> THEN err' = ErrNoPassword /\ untouched
             ELSE IF users[id].password # <<form.password>>
             THEN err' = ErrInvalid /\ untouched
             ELSE session' = <<id>> /\ user' = <<users[id]>> /\ view' = "app"]_vars

\* A login with a wrong password has been refused.
C3_Witness == err = ErrInvalid /\ session = <<>> /\ view = "auth"

\* The weekday of calendar date d (1970-01-01 was a Thursday): 0 Sunday .. 6 Saturday.
calendarDay(d) == (d + 4) % 7

\* C4: no ledger ever holds a Saturday or a Sunday date.
C4_OnlyWeekdaysStored ==
  \A id \in CollegeIds :
    \A i \in 1..Len(att[id]) : calendarDay(att[id][i]) \notin {0, 6}

\* C5: a ledger changes only in a markAttendance whose selfie gate was passed
\* and whose assertion returned ok; a refused gate sets the error and leaves
\* every ledger alone.
C5_MarkGates ==
  [][/\ att' # att => shotBlob /\ asserting # <<>> /\ wa' = <<TRUE>>
     /\ markAttendance /\ ~shotBlob => err' = ErrSelfie /\ att' = att
     /\ asserting # <<>> /\ wa' = <<FALSE>> /\ asserting' = <<>>
          => err' = ErrBiometric /\ att' = att]_vars

\* A date has been stored after a selfie and an accepted assertion.
C5_Witness ==
  /\ wa = <<TRUE>> /\ shotBlob /\ info = InfoMarked
  /\ \E id \in CollegeIds : att[id] # <<>>

NoDuplicateDates ==
  \A id \in CollegeIds :
    \A i, j \in 1..Len(att[id]) : att[id][i] = att[id][j] => i = j

\* C6: no ledger holds a date twice, and a successful mark on a day the
\* ledger already holds leaves every ledger as it was.
C6_MarkIdempotent ==
  /\ []NoDuplicateDates
  /\ [][asserting # <<>> /\ info' = InfoMarked /\ wa' = <<TRUE>>
        /\ includes(att[asserting[1]], today) => att' = att]_vars

\* A second mark is awaiting its assertion on a day already in the ledger.
C6_Witness ==
  /\ asserting # <<>> /\ marking /\ shotBlob
  /\ isWeekday(today, tzWest)
  /\ includes(att[asserting[1]], today)

\* C7: in the app view, the Present count is at most the Working Days count.
C7_PresentAtMostWorking == view = "app" => presentDays <= workingDays

\* What setPassword leaves alone when it refuses.
C8_Refused ==
  /\ users' = users /\ session' = session /\ view' = view /\ step' = "setpass"

C8_Stored ==
  /\ form.collegeId \in DOMAIN users'
  /\ users'[form.collegeId].password = <<form.password>>

WebauthnOnlyIfCredential ==
  \A id \in DOMAIN users : users[id].webauthn => id \in credentialed

\* C9: a setPassword that passed its checks ends in the app view with the
\* session of its College ID, at once or when the enrollment settles, whether
\* or not the enrollment succeeded; and an account's webauthn flag is set only
\* when an enrollment for that id returned a credential.
C9_EnrollmentBestEffort ==
  /\ []WebauthnOnlyIfCredential
  /\ [][/\ (\E supported \in BOOLEAN : setPassword(supported)) /\ err' = ""
             => \/ enrolling = <<>> /\ enrolling' = <<users'[form.collegeId]>>
                \/ view' = "app" /\ session' = <<form.collegeId>>
        /\ enrolling # <<>> /\ enrolling' = <<>> /\ res' # <<>>
             => /\ view' = "app"
                /\ session' = <<enrolling[1].collegeId>>
                /\ user' = enrolling]_vars

\* Authenticated after an enrollment that returned no credential.
C9_Witness ==
  /\ view = "app" /\ res = <<FALSE>> /\ enrolling = <<>>
  /\ session # <<>> /\ session[1] \in DOMAIN users
  /\ ~users[session[1]].webauthn
  /\ waStatus = WaSkipped

\* C10: the verify step is entered only from the register step by a sendOTP
\* with all three fields filled; the set-password step only from the verify
\* step with the issued code; the app view only by a login that passed its
\* checks, a setPassword that passed its checks, or the restore of a stored
\* session when the page loads.
C10_LoginEnters ==
  LET id == trim(form.collegeId)
  IN /\ view = "auth"
     /\ id \in DOMAIN users
     /\ users[id].password = <<form.password>>
     /\ session' = <<id>>

C10_SetPasswordEnters ==
  \/ /\ view = "auth" /\ step = "setpass"
     /\ Len(form.password) >= 6 /\ form.password = form.confirm
     /\ form.collegeId \in DOMAIN users
     /\ session' = <<form.collegeId>>
  \/ /\ enrolling # <<>> /\ enrolling' = <<>> /\ res' # <<>>
     /\ Len(enrolling[1].password[1]) >= 6
     /\ session' = <<enrolling[1].collegeId>>

C10_RestoreEnters ==
  /\ Reload
  /\ session # <<>> /\ session' = session
  /\ session[1] \in DOMAIN users
  /\ user' = <<users[session[1]]>>

C10_FlowOrder ==
  [][/\ step' = "verify" /\ step # "verify"
          => /\ view = "auth" /\ step = "register"
             /\ form.collegeId # <<>> /\ form.email # "" /\ form.phone # ""
             /\ otpCode' \in OtpCodes
     /\ step' = "setpass" /\ step # "setpass"
          => /\ view = "auth" /\ step = "verify"
             /\ form.otp = otpCode
             /\ form.collegeId \in DOMAIN users'
     /\ view' = "app" /\ (view # "app" \/ Reload)
          => C10_LoginEnters \/ C10_SetPasswordEnters \/ C10_RestoreEnters]_vars

\* The registration flow has been walked to its end.
C10_Witness ==
  /\ view = "app" /\ step = "setpass" /\ session # <<>>
  /\ session[1] \in registered

\* The state logout writes: no session, no user, the Login card with an
\* empty form and no message.
anonymous ==
  /\ session = <<>> /\ user = <<>> /\ view = "auth" /\ step = "login"
  /\ form = EmptyForm /\ info = "" /\ err = "" /\ attendanceDates = <<>>

\* C11: from whatever state logout is invoked (a selfie taken, an assertion
\* pending, a message shown), it removes the session and leaves no user, the
\* auth view, the login step and an empty form.  Everything it writes is a
\* fixed value and it changes nothing else, so a second logout would write
\* the same state again.
C11_LogoutAnonymous ==
  [][logout
       => /\ anonymous'
          /\ UNCHANGED <<users, att, otpSent, otpCode, marking, shotBlob,
                         waStatus, semStart, workingDays, enrolling, asserting,
                         res, wa>>]_vars

\* Logged out while a markAttendance was awaiting its assertion.
C11_Witness == anonymous /\ asserting # <<>> /\ marking /\ shotBlob

\* C12: with an empty College ID, email or phone, sendOTP sets the validation
\* error, issues no code and stays in the register step; otherwise it stores
\* a newly generated code and moves to the verify step.  Either way it leaves
\* every account as it was.
C12_SendOtpChecks ==
  [][(\E code \in OtpCodes : sendOTP(code))
       => /\ IF form.collegeId = <<>> \/ form.email = "" \/ form.phone = ""
             THEN /\ err' = ErrFillAll
                  /\ otpCode' = otpCode /\ otpSent' = otpSent
                  /\ step' = "register"
             ELSE /\ err' = ""
                  /\ otpCode' \in OtpCodes /\ otpSent'
                  /\ step' = "verify"
          /\ users' = users]_vars

\* sendOTP has refused a form with an empty field before any code was issued.
C12_Witness ==
  /\ err = ErrFillAll /\ step = "register" /\ otpCode = "" /\ ~otpSent
  /\ form.collegeId # <<>> /\ form.email = ""

\* C13: the set of College IDs that have an account never loses a member,
\* and gains one only in a verifyOTP whose code matched: the College ID in
\* the form.
C13_AccountsOnlyGrow ==
  [][/\ DOMAIN users \subseteq DOMAIN users'
     /\ DOMAIN users' # DOMAIN users
          => /\ verifyOTP /\ form.otp = otpCode /\ step' = "setpass"
             /\ DOMAIN users' = DOMAIN users \cup {form.collegeId}]_vars

\* Two accounts were created and are still stored after a logout or a reload.
C13_Witness ==
  /\ DOMAIN users = {IdA, IdASpace}
  /\ view = "auth" /\ step = "login" /\ session = <<>>
  /\ registered # {}

\* The value of a toFixed(2) string, in hundredths.
hundredths(s) == (IF s.neg THEN -1 ELSE 1) * (100 * s.int + s.frac)

\* C14: absentDays is the larger of 0 and workingDays - presentDays; with
\* workingDays > 0 the percentage is the two-decimal number nearest to
\* (presentDays - absentDays) / workingDays * 100, and with workingDays = 0
\* it is 0.
C14_Stats ==
  LET w == workingDays
      p == presentDays
      a == absentDays
  IN /\ a >= 0 /\ a >= w - p /\ (a = 0 \/ a = w - p)
     /\ IF w = 0 THEN percentage = 0
        ELSE LET d == hundredths(percentage) * w - 10000 * (p - a)
             IN /\ percentage.int >= 0 /\ percentage.frac \in 0..99
                /\ 2 * d <= w /\ -2 * d <= w

\* Five of six working days marked: 66.666... is shown as 66.67.
C14_Witness ==
  /\ view = "app" /\ workingDays = 6 /\ presentDays = 5 /\ absentDays = 1
  /\ percentage = [neg |-> FALSE, int |-> 66, frac |-> 67]

\* No working day in the period: the percentage is the number 0.
C14_WitnessZero ==
  /\ view = "app" /\ workingDays = 0 /\ presentDays > 0 /\ percentage = 0

\* C15: when presentDays equals workingDays and workingDays > 0, the
\* percentage is "100.00".
C15_FullAttendance ==
  presentDays = workingDays /\ workingDays > 0
    => percentage = [neg |-> FALSE, int |-> 100, frac |-> 0]

\* Every one of seven working days is marked.
C15_Witness ==
  /\ view = "app" /\ workingDays = 7 /\ presentDays = 7 /\ absentDays = 0
  /\ att[IdA] = attendanceDates

\* The number of calendar dates from start to end that are Monday to Friday.
calendarWorkingDays(start, end) ==
  Cardinality({d \in start..end : calendarDay(d) \in 1..5})

\* C16: the Working Days figure computed for a semester start and today is
\* the number of calendar dates from the start to today that fall on Monday
\* to Friday: 1 or 0 for a one-day period, 0 when today is before the start.
C16_CountsCalendarWeekdays ==
  semStart # <<>> => workingDays = calendarWorkingDays(semStart[1], today)

\* C17: for the semester start on screen, the Working Days figure computed
\* up to today is at least the count up to any earlier day and at most the
\* count up to any later day.
C17_MonotoneInEnd ==
  \A e \in StatDays :
    /\ e <= today => workingDaysCount(semStart, e, tzWest) <= workingDays
    /\ today <= e => workingDays <= workingDaysCount(semStart, e, tzWest)

\* A period that runs from a Thursday into the weekend after it.
C17_Witness ==
  /\ semStart = <<0>> /\ today = 3 /\ ~tzWest
  /\ workingDays = 2
  /\ workingDaysCount(semStart, 1, tzWest) = 2
  /\ workingDaysCount(semStart, 4, tzWest) = 3

\* C18: while an account is logged in, the Present figure equals the number
\* of dates stored in that account's ledger.
C18_PresentIsLedgerSize ==
  view = "app" /\ user # <<>>
    => presentDays = Len(loadAttendance(att, user[1].collegeId))

\* C19: the stored session is absent or the College ID of an account with a
\* password; the app view is shown exactly when a session is stored, and
\* then user is the stored account of that College ID.
C19_SessionConsistent ==
  /\ session # <<>>
       => /\ session[1] \in DOMAIN users
          /\ users[session[1]].password # <<>>
  /\ view = "app" <=> session # <<>>
  /\ view = "app" => user # <<>> /\ user[1].collegeId = session[1]

\* C20: whenever a date is appended to the ledger of a College ID, that
\* College ID is the stored session at that moment.
C20_WritesForSession ==
  [][\A id \in CollegeIds :
       loadAttendance(att', id) # loadAttendance(att, id) => session = <<id>>]_vars

\* C21: the stored password of an account changes only in a setPassword for
\* the College ID that verifyOTP verified in the registration in progress.
C21_PasswordOnlyForVerified ==
  [][\A id \in DOMAIN users :
       users'[id].password # users[id].password
         => /\ \E supported \in BOOLEAN : setPassword(supported)
            /\ verifiedFor = <<id>>]_vars

\* C22: a selfie satisfies the gate of markAttendance only during the login
\* in which it was captured: whenever a user becomes the current one (login,
\* end of setup, restored session) no selfie is held, so the first
\* markAttendance of that login is refused until capture has run.
C22_SelfiePerLogin == [][user' # user /\ user' # <<>> => ~shotBlob']_vars

\* C23: a markAttendance starts only while none is in flight; the marking
\* flag is true exactly while one awaits its assertion; every answer of the
\* assertion (refused, weekend, stored, already stored) and the missing
\* selfie leave the flag false; and, the assertion answering in the end, a
\* true flag always becomes false again.
C23_OneMarkInFlight ==
  /\ [](marking <=> asserting # <<>>)
  /\ [][/\ markAttendance => ~marking /\ asserting = <<>>
        /\ markAttendance /\ ~shotBlob => ~marking'
        /\ asserting # <<>> /\ asserting' = <<>> => ~marking']_vars
  /\ (marking ~> ~marking)

\* A markAttendance is in flight in the app view.
C23_Witness == marking /\ asserting # <<>> /\ view = "app" /\ user # <<>>

\* C24: a verifyOTP that succeeds for a College ID with an account rewrites
\* that account's email and phone from the form and nothing else: its
\* password and webauthn flag, the other accounts, the session and the
\* ledgers stay as they were.
C24_VerifyFrame ==
  [][verifyOTP /\ step' = "setpass" /\ form.collegeId \in DOMAIN users
       => LET id == form.collegeId
          IN /\ DOMAIN users' = DOMAIN users
             /\ users'[id].email = form.email /\ users'[id].phone = form.phone
             /\ users'[id].password = users[id].password
             /\ users'[id].webauthn = users[id].webauthn
             /\ users'[id].collegeId = id
             /\ \A other \in DOMAIN users \ {id} : users'[other] = users[other]
             /\ session' = session /\ att' = att]_vars

\* The enrolled account "a" has been verified again with new contact details.
C24_Witness ==
  /\ step = "setpass" /\ verifiedFor = <<IdA>>
  /\ users[IdA].email = "t@college.edu" /\ users[IdA].phone = "5550199"
  /\ users[IdA].password = <<PwOk>> /\ users[IdA].webauthn
  /\ users[IdB] = registeredUser(IdB)

\* A register for a College ID that has a record leaves every record alone.
C25_RegisterKeeps ==
  [][register /\ studentForm.collegeId \in DOMAIN students
       => students' = students]_vars

C25_CounterBounded ==
  /\ \A id \in DOMAIN students : students[id].attendance <= simpleWorkingDays
  /\ page = "dashboard" /\ current # <<>>
       => /\ totalAbsent >= 0
          /\ hundredths(attendancePercent) <= 10000

\* C25: in the first App a student's attendance counter never exceeds
\* workingDays (100), so Total Absent is never negative and Attendance % is
\* at most 100.00; and a register for a College ID that is registered
\* leaves the stored record as it was.
C25_SimpleApp == []C25_CounterBounded /\ C25_RegisterKeeps

====
